---- MODULE Spec2Model ----
(***************************************************************************)
(* The transaction algebra of transaction-rs (src/transaction/src/lib.rs)  *)
(* as a small-step evaluator: a transaction is a tree of nodes, run(ctx)   *)
(* is a recursive call that threads one mutable context through the tree.  *)
(* The call stack of the recursion is the variable `stack`; `log` records  *)
(* every leaf that ran and every closure that was invoked, in order.       *)
(***************************************************************************)
EXTENDS Integers, Sequences, FiniteSets, TLC

VARIABLES
    prog,   \* the transactions the driver runs, one after the other
    ctx0,   \* the context every run starts from
    run,    \* index in prog of the current run
    pc,     \* "idle" | "eval" (run called on cur) | "ret" (run returned res) | "done"
    cur,    \* the node whose run has just been called
    res,    \* the Result a run has just returned
    stack,  \* the frames of the run calls in progress, innermost first
    ctx,    \* the context (the &mut Ctx of the run)
    log,    \* leaves run and closures invoked during the current run
    outs    \* outcome of each completed run

vars == <<prog, ctx0, run, pc, cur, res, stack, ctx, log, outs>>

-----------------------------------------------------------------------------
(* Bounds of the model. *)

\* success and error payloads are 1..MaxVal
MaxVal == 2
\* the two counters of the initial context range over 0..MaxCtr
MaxCtr == 1

-----------------------------------------------------------------------------
(* Values, results, contexts. *)

Nil == [nil |-> TRUE]

\* an integer payload
V(n) == [n |-> n]
\* the tuple a join returns
Tup(es) == [es |-> es]
\* the value a pure closure named fn returns for arg
App(fn, arg) == [fn |-> fn, arg |-> arg]

Ok(v) == [ok |-> TRUE, v |-> v]
Err(e) == [ok |-> FALSE, v |-> e]

Vals == {V(n) : n \in 1..MaxVal}
Results == {Ok(v) : v \in Vals} \cup {Err(v) : v \in Vals}
Ctxs == [x : 0..MaxCtr, y : 0..MaxCtr]

-----------------------------------------------------------------------------
(* Constructors: building a transaction is pure data assembly. *)

result(r) == [k |-> "TxResult", r |-> r]
ok(t) == [k |-> "TxOk", ok |-> t]
err(e) == [k |-> "TxErr", err |-> e]
lazy(f) == [k |-> "Lazy", f |-> f]
with_ctx(f) == [k |-> "WithCtx", f |-> f]
\* a bare closure object used as a transaction (impl for Fn(&mut Ctx))
dyn_fn(f) == [k |-> "Fn", f |-> f]

boxed(tx) == [k |-> "Box", tx |-> tx]
ref(tx) == [k |-> "Ref", tx |-> tx]
then(tx, f) == [k |-> "Then", tx |-> tx, f |-> f]
map(tx, f) == [k |-> "Map", tx |-> tx, f |-> f]
and_then(tx, f) == [k |-> "AndThen", tx |-> tx, f |-> f]
map_err(tx, f) == [k |-> "MapErr", tx |-> tx, f |-> f]
or_else(tx, f) == [k |-> "OrElse", tx |-> tx, f |-> f]
abort(tx, f) == [k |-> "Abort", tx |-> tx, f |-> f]
try_abort(tx, f) == [k |-> "TryAbort", tx |-> tx, f |-> f]
recover(tx, f) == [k |-> "Recover", tx |-> tx, f |-> f]
try_recover(tx, f) == [k |-> "TryRecover", tx |-> tx, f |-> f]
join(a, b) == [k |-> "Join", tx1 |-> a, tx2 |-> b]
join3(a, b, c) == [k |-> "Join3", tx1 |-> a, tx2 |-> b, tx3 |-> c]
join4(a, b, c, d) == [k |-> "Join4", tx1 |-> a, tx2 |-> b, tx3 |-> c, tx4 |-> d]

LeafKinds == {"TxResult", "TxOk", "TxErr", "Lazy", "WithCtx", "Fn"}
JoinKinds == {"Join", "Join3", "Join4"}

-----------------------------------------------------------------------------
(* Closures the caller supplies. *)

\* F: Fn(A) -> B, pure: the identity, or an uninterpreted function
CallPure(f, a) == IF f = "id" THEN a ELSE App(f, a)

\* F: Fn(A) -> Result<B, E>, pure (try_abort, try_recover)
CallTry(f, a) == IF f = "accept" THEN Ok(App(f, a)) ELSE Err(App(f, a))

\* F: Fn() -> Result<T, E> (lazy): returns the result it holds
CallLazy(f) == f.r

\* F: Fn(A) -> Tx2 (then, and_then, or_else)
RECURSIVE CallTx(_, _)
CallTx(f, a) ==
    CASE f.c = "const" -> f.tx
      [] f.c = "ok" -> ok(a)
      [] f.c = "err" -> err(a)
      [] f.c = "result" -> result(a)
      [] f.c = "and_then" -> and_then(CallTx(f.f, a), f.g)

\* mutant: inc_y writes its sum to x
CallCtxSlip(f, c) ==
    CASE f = "inc_x" -> [res |-> Ok(V(c.x)), ctx |-> [c EXCEPT !.x = c.x + 1]]
      [] f = "inc_y" -> [res |-> Ok(V(c.y)), ctx |-> [c EXCEPT !.x = c.y + 1]]
      [] f = "add" -> [res |-> Ok(V(c.x + c.y)), ctx |-> c]
      [] f = "bump_fail" -> [res |-> Err(V(c.x)), ctx |-> [c EXCEPT !.x = c.x + 1]]

\* F: Fn(&mut Ctx) -> Result<T, E> (with_ctx): the result and the context it leaves.
\* inc_x, inc_y and add are the closures of the example; bump_fail is a closure
\* that writes x and then fails.
CallCtx(f, c) ==
    CASE f = "inc_x" -> [res |-> Ok(V(c.x)), ctx |-> [c EXCEPT !.x = c.x + 1]]
      [] f = "inc_y" -> [res |-> Ok(V(c.y)), ctx |-> [c EXCEPT !.y = c.y + 1]]
      [] f = "add" -> [res |-> Ok(V(c.x + c.y)), ctx |-> c]
      [] f = "bump_fail" -> [res |-> Err(V(c.x)), ctx |-> [c EXCEPT !.x = c.x + 1]]

CtxFns == {"inc_x", "inc_y", "add", "bump_fail"}

-----------------------------------------------------------------------------
(* The log. *)

RunEv(tx, pre, post, r) == [ev |-> "run", tx |-> tx, pre |-> pre, post |-> post, res |-> r]
CallEv(f, a) == [ev |-> "call", f |-> f, arg |-> a]

\* the closures invoked when f is called with a: f itself, then those f calls
RECURSIVE CallsTx(_, _)
CallsTx(f, a) ==
    <<CallEv(f, a)>> \o (IF f.c = "and_then" THEN CallsTx(f.f, a) ELSE <<>>)

-----------------------------------------------------------------------------
(* What each run body computes once the node's fields are destructured.    *)
(* A leaf yields its result and the context it leaves.  A combinator,      *)
(* given the result r of its child, either returns (next = "ret") or calls *)
(* run on another transaction in tail position (next = "eval"); calls are  *)
(* the closures it invoked on the way.                                     *)

Leaf(r, c) == [res |-> r, ctx |-> c]
Return(r, calls) == [next |-> "ret", tx |-> Nil, res |-> r, calls |-> calls]
TailRun(tx, calls) == [next |-> "eval", tx |-> tx, res |-> Nil, calls |-> calls]

\* self.r.clone()
TxResultRun(self, c) == Leaf(self.r, c)
\* Ok(self.ok.clone())
TxOkRun(self, c) == Leaf(Ok(self.ok), c)
\* Err(self.err.clone())
TxErrRun(self, c) == Leaf(Err(self.err), c)
\* mutant: the run bumps a counter of the context
LazyRunTouch(self, c) == Leaf(CallLazy(self.f), [c EXCEPT !.x = c.x + 1])

\* (self.f)()
LazyRun(self, c) == Leaf(CallLazy(self.f), c)
\* (self.f)(ctx)
WithCtxRun(self, c) == CallCtx(self.f, c)
\* self(ctx)
FnRun(self, c) == CallCtx(self.f, c)

\* mutant: the wrapped transaction is run a second time
BoxRunTwice(self) == [k |-> "Then", tx |-> self.tx, f |-> [c |-> "const", tx |-> self.tx]]

\* (**self).run(ctx)
BoxRun(self) == self.tx
RefRun(self) == self.tx

\* tx.run(ctx).map(f)
MapRun(self, r) ==
    IF r.ok THEN Return(Ok(CallPure(self.f, r.v)), <<CallEv(self.f, r.v)>>)
    ELSE Return(r, <<>>)

\* f(tx.run(ctx)).run(ctx)
ThenRun(self, r) == TailRun(CallTx(self.f, r), CallsTx(self.f, r))

\* mutant: a failure comes back as a success holding the error
AndThenRunSwallow(self, r) ==
    IF r.ok THEN TailRun(CallTx(self.f, r.v), CallsTx(self.f, r.v))
    ELSE Return(Ok(r.v), <<>>)

\* mutant: the continuation is called with the error too
AndThenRunAlways(self, r) == TailRun(CallTx(self.f, r.v), CallsTx(self.f, r.v))

\* tx.run(ctx).and_then(|item| f(item).run(ctx))
AndThenRun(self, r) ==
    IF r.ok THEN TailRun(CallTx(self.f, r.v), CallsTx(self.f, r.v))
    ELSE Return(r, <<>>)

\* tx.run(ctx).map_err(f)
MapErrRun(self, r) ==
    IF r.ok THEN Return(r, <<>>)
    ELSE Return(Err(CallPure(self.f, r.v)), <<CallEv(self.f, r.v)>>)

\* mutant: the failure is returned and no fallback is run
OrElseRunNever(self, r) == Return(r, <<>>)

\* tx.run(ctx).or_else(|item| f(item).run(ctx))
OrElseRun(self, r) ==
    IF r.ok THEN Return(r, <<>>)
    ELSE TailRun(CallTx(self.f, r.v), CallsTx(self.f, r.v))

\* mutant: a success is mapped and stays a success
AbortRunOk(self, r) ==
    IF r.ok THEN Return(Ok(CallPure(self.f, r.v)), <<CallEv(self.f, r.v)>>)
    ELSE Return(Err(r.v), <<>>)

\* match tx.run(ctx) { Ok(r) => Err(f(r)), Err(e) => Err(e) }
AbortRun(self, r) ==
    IF r.ok THEN Return(Err(CallPure(self.f, r.v)), <<CallEv(self.f, r.v)>>)
    ELSE Return(Err(r.v), <<>>)

\* match tx.run(ctx) { Ok(r) => f(r), Err(e) => Err(e) }
TryAbortRun(self, r) ==
    IF r.ok THEN Return(CallTry(self.f, r.v), <<CallEv(self.f, r.v)>>)
    ELSE Return(Err(r.v), <<>>)

\* mutant: a failure is mapped and stays a failure
RecoverRunErr(self, r) ==
    IF r.ok THEN Return(r, <<>>)
    ELSE Return(Err(CallPure(self.f, r.v)), <<CallEv(self.f, r.v)>>)

\* match tx.run(ctx) { r @ Ok(_) => r, Err(e) => Ok(f(e)) }
RecoverRun(self, r) ==
    IF r.ok THEN Return(r, <<>>)
    ELSE Return(Ok(CallPure(self.f, r.v)), <<CallEv(self.f, r.v)>>)

\* match tx.run(ctx) { Ok(r) => Ok(r), Err(e) => f(e) }
TryRecoverRun(self, r) ==
    IF r.ok THEN Return(Ok(r.v), <<>>)
    ELSE Return(CallTry(self.f, r.v), <<CallEv(self.f, r.v)>>)

\* the scrutinee tuple of each join, in the order its elements are evaluated
JoinTuple(self) == <<self.tx1, self.tx2>>
Join3Tuple(self) == <<self.tx1, self.tx2, self.tx3>>
\* mutant: the third element is evaluated before the second
Join4TupleSwapped(self) == <<self.tx1, self.tx3, self.tx2, self.tx4>>
Join4Tuple(self) == <<self.tx1, self.tx2, self.tx3, self.tx4>>

\* (Ok(r1), Ok(r2)) => Ok((r1, r2)),  (Err(e), _) | (_, Err(e)) => Err(e)
JoinMatch(rs) ==
    IF rs[1].ok /\ rs[2].ok THEN Ok(Tup(<<rs[1].v, rs[2].v>>))
    ELSE IF ~rs[1].ok THEN Err(rs[1].v)
    ELSE Err(rs[2].v)

\* mutant: the alternatives of the error pattern in the opposite order
Join3MatchLast(rs) ==
    IF rs[1].ok /\ rs[2].ok /\ rs[3].ok THEN Ok(Tup(<<rs[1].v, rs[2].v, rs[3].v>>))
    ELSE IF ~rs[3].ok THEN Err(rs[3].v)
    ELSE IF ~rs[2].ok THEN Err(rs[2].v)
    ELSE Err(rs[1].v)

Join3Match(rs) ==
    IF rs[1].ok /\ rs[2].ok /\ rs[3].ok THEN Ok(Tup(<<rs[1].v, rs[2].v, rs[3].v>>))
    ELSE IF ~rs[1].ok THEN Err(rs[1].v)
    ELSE IF ~rs[2].ok THEN Err(rs[2].v)
    ELSE Err(rs[3].v)

Join4Match(rs) ==
    IF rs[1].ok /\ rs[2].ok /\ rs[3].ok /\ rs[4].ok
        THEN Ok(Tup(<<rs[1].v, rs[2].v, rs[3].v, rs[4].v>>))
    ELSE IF ~rs[1].ok THEN Err(rs[1].v)
    ELSE IF ~rs[2].ok THEN Err(rs[2].v)
    ELSE IF ~rs[3].ok THEN Err(rs[3].v)
    ELSE Err(rs[4].v)

-----------------------------------------------------------------------------
(* Steps of the evaluator. *)

Frame(self, rs) == [self |-> self, rs |-> rs]

\* run is called on a leaf of the given kind and returns
LeafStep(kind, out) ==
    /\ pc = "eval" /\ cur.k = kind
    /\ pc' = "ret" /\ cur' = Nil /\ res' = out.res /\ ctx' = out.ctx
    /\ log' = Append(log, RunEv(cur, ctx, out.ctx, out.res))
    /\ UNCHANGED <<prog, ctx0, run, stack, outs>>

\* run is called on a combinator of the given kind, which calls run on child
Enter(kind, child) ==
    /\ pc = "eval" /\ cur.k = kind
    /\ cur' = child
    /\ stack' = <<Frame(cur, <<>>)>> \o stack
    /\ UNCHANGED <<prog, ctx0, run, pc, res, ctx, log, outs>>

\* run is called on a handle of the given kind, which forwards to the wrapped value
Forward(kind, inner) ==
    /\ pc = "eval" /\ cur.k = kind
    /\ cur' = inner
    /\ UNCHANGED <<prog, ctx0, run, pc, res, stack, ctx, log, outs>>

\* the child of the innermost combinator has returned
Returned(kind) == pc = "ret" /\ stack # <<>> /\ Head(stack).self.k = kind

\* the innermost combinator goes on as st says
Resume(st) ==
    /\ pc' = st.next /\ cur' = st.tx /\ res' = st.res
    /\ log' = log \o st.calls
    /\ stack' = Tail(stack)
    /\ UNCHANGED <<prog, ctx0, run, ctx, outs>>

\* a join has the result of one more element of its tuple; matched is the value of
\* the match once the tuple is complete
JoinStep(kind, tuple, matched) ==
    /\ Returned(kind)
    /\ LET rs == Append(Head(stack).rs, res) IN
       IF Len(rs) < Len(tuple)
       THEN /\ pc' = "eval" /\ cur' = tuple[Len(rs) + 1] /\ res' = Nil
            /\ stack' = <<Frame(Head(stack).self, rs)>> \o Tail(stack)
       ELSE /\ pc' = "ret" /\ cur' = Nil /\ res' = matched
            /\ stack' = Tail(stack)
    /\ UNCHANGED <<prog, ctx0, run, ctx, log, outs>>

TxResult_run == LeafStep("TxResult", TxResultRun(cur, ctx))
TxOk_run == LeafStep("TxOk", TxOkRun(cur, ctx))
TxErr_run == LeafStep("TxErr", TxErrRun(cur, ctx))
Lazy_run == LeafStep("Lazy", LazyRun(cur, ctx))
WithCtx_run == LeafStep("WithCtx", WithCtxRun(cur, ctx))
Fn_run == LeafStep("Fn", FnRun(cur, ctx))

Box_run == Forward("Box", BoxRun(cur))
Ref_run == Forward("Ref", RefRun(cur))

Map_run == Enter("Map", cur.tx)
Map_ret == Returned("Map") /\ Resume(MapRun(Head(stack).self, res))
Then_run == Enter("Then", cur.tx)
Then_ret == Returned("Then") /\ Resume(ThenRun(Head(stack).self, res))
AndThen_run == Enter("AndThen", cur.tx)
AndThen_ret == Returned("AndThen") /\ Resume(AndThenRun(Head(stack).self, res))
MapErr_run == Enter("MapErr", cur.tx)
MapErr_ret == Returned("MapErr") /\ Resume(MapErrRun(Head(stack).self, res))
OrElse_run == Enter("OrElse", cur.tx)
OrElse_ret == Returned("OrElse") /\ Resume(OrElseRun(Head(stack).self, res))
Abort_run == Enter("Abort", cur.tx)
Abort_ret == Returned("Abort") /\ Resume(AbortRun(Head(stack).self, res))
TryAbort_run == Enter("TryAbort", cur.tx)
TryAbort_ret == Returned("TryAbort") /\ Resume(TryAbortRun(Head(stack).self, res))
Recover_run == Enter("Recover", cur.tx)
Recover_ret == Returned("Recover") /\ Resume(RecoverRun(Head(stack).self, res))
TryRecover_run == Enter("TryRecover", cur.tx)
TryRecover_ret == Returned("TryRecover") /\ Resume(TryRecoverRun(Head(stack).self, res))

Join_run == Enter("Join", JoinTuple(cur)[1])
Join_ret ==
    JoinStep("Join", JoinTuple(Head(stack).self), JoinMatch(Append(Head(stack).rs, res)))
Join3_run == Enter("Join3", Join3Tuple(cur)[1])
Join3_ret ==
    JoinStep("Join3", Join3Tuple(Head(stack).self), Join3Match(Append(Head(stack).rs, res)))
Join4_run == Enter("Join4", Join4Tuple(cur)[1])
Join4_ret ==
    JoinStep("Join4", Join4Tuple(Head(stack).self), Join4Match(Append(Head(stack).rs, res)))

\* the driver calls run on the next transaction of prog
Start ==
    /\ pc = "idle"
    /\ pc' = "eval" /\ cur' = prog[run] /\ ctx' = ctx0[run]
    /\ log' = <<>> /\ stack' = <<>>
    /\ UNCHANGED <<prog, ctx0, run, res, outs>>

\* the outermost run returns to the driver
Finish ==
    /\ pc = "ret" /\ stack = <<>>
    /\ outs' = Append(outs, [res |-> res, ctx |-> ctx, log |-> log])
    /\ res' = Nil
    /\ run' = run + 1
    /\ pc' = IF run = Len(prog) THEN "done" ELSE "idle"
    /\ UNCHANGED <<prog, ctx0, cur, stack, ctx, log>>

-----------------------------------------------------------------------------
(* The transactions and contexts the driver is given. *)

Const(tx) == [c |-> "const", tx |-> tx]
\* |v| f(v).and_then(g)
AndThenWith(f, g) == [c |-> "and_then", f |-> f, g |-> g]

PureFns == {"id", "f"}
TryFns == {"accept", "reject"}
LazyFns == {[r |-> r] : r \in Results}

Leaves ==
    {ok(v) : v \in Vals} \cup {err(v) : v \in Vals}
    \cup {result(r) : r \in Results}
    \cup {lazy(f) : f \in LazyFns}
    \cup {with_ctx(f) : f \in CtxFns}
    \cup {dyn_fn(f) : f \in CtxFns}

\* leaves that touch no context
PureLeaves == {l \in Leaves : l.k \notin {"WithCtx", "Fn"}}

\* a few leaves of every behaviour: success, failure, reading, writing
SomeLeaves ==
    {ok(V(1)), err(V(MaxVal)), with_ctx("inc_x"), with_ctx("add"),
     with_ctx("bump_fail"), dyn_fn("inc_y")}

TxFns == {[c |-> "ok"], [c |-> "err"], Const(with_ctx("inc_y")),
          Const(with_ctx("bump_fail")), Const(with_ctx("add"))}
ThenFns == {[c |-> "result"], Const(with_ctx("inc_y")), Const(err(V(1)))}

\* every combinator of one child, over the children in T
Unary(T) ==
    {then(t, f) : t \in T, f \in ThenFns}
    \cup {map(t, f) : t \in T, f \in PureFns}
    \cup {and_then(t, f) : t \in T, f \in TxFns}
    \cup {map_err(t, f) : t \in T, f \in PureFns}
    \cup {or_else(t, f) : t \in T, f \in TxFns}
    \cup {abort(t, f) : t \in T, f \in PureFns}
    \cup {try_abort(t, f) : t \in T, f \in TryFns}
    \cup {recover(t, f) : t \in T, f \in PureFns}
    \cup {try_recover(t, f) : t \in T, f \in TryFns}
    \cup {boxed(t) : t \in T}
    \cup {ref(t) : t \in T}

Joins(T) ==
    {join(a, b) : a \in T, b \in T}
    \cup {join3(a, b, c) : a \in T, b \in T, c \in T}
    \cup {join4(a, b, c, d) : a \in T, b \in T, c \in T, d \in T}

Depth1 == Unary(Leaves)
Depth2 == Unary(Unary({ok(V(1)), with_ctx("inc_x"), with_ctx("bump_fail")}))
JoinTrees ==
    Joins(SomeLeaves)
    \cup {join(j, l) : j \in Joins({ok(V(1)), with_ctx("bump_fail")}), l \in SomeLeaves}
    \cup {join3(l, j, l) : j \in Joins({err(V(1)), with_ctx("inc_x")}), l \in SomeLeaves}
\* joins whose children are combinators, and combinators over joins
JoinMixed ==
    {join(u, l) : u \in Unary({ok(V(1)), with_ctx("bump_fail")}), l \in SomeLeaves}
    \cup Unary({join(a, b) : a \in SomeLeaves, b \in {err(V(1)), with_ctx("inc_x")}})

\* the transactions of examples/impl_struct.rs
inc_x == boxed(with_ctx("inc_x"))
inc_y == boxed(with_ctx("inc_y"))
inc_xy == boxed(and_then(inc_x, Const(inc_y)))
add == boxed(with_ctx("add"))
main == and_then(inc_xy, Const(add))

Trees == Leaves \cup Depth1 \cup Depth2 \cup JoinTrees \cup JoinMixed \cup {main}

\* tx with every node of it put behind a handle, a Box or a shared reference in turn
RECURSIVE Erased(_, _)
Erased(tx, box) ==
    LET wrap(t) == IF box THEN boxed(t) ELSE ref(t)
        sub(t) == Erased(t, ~box)
    IN  CASE tx.k \in LeafKinds -> wrap(tx)
          [] tx.k \in {"Box", "Ref"} -> wrap([tx EXCEPT !.tx = sub(tx.tx)])
          [] tx.k = "Join" -> wrap(join(sub(tx.tx1), sub(tx.tx2)))
          [] tx.k = "Join3" -> wrap(join3(sub(tx.tx1), sub(tx.tx2), sub(tx.tx3)))
          [] tx.k = "Join4" -> wrap(join4(sub(tx.tx1), sub(tx.tx2), sub(tx.tx3), sub(tx.tx4)))
          [] OTHER -> wrap([tx EXCEPT !.tx = sub(tx.tx)])

\* transactions that are erased
Erasable ==
    Leaves \cup Depth1 \cup Joins({ok(V(1)), with_ctx("bump_fail"), with_ctx("add")})
    \cup {main}

\* transactions that start an and_then chain
Heads ==
    Leaves
    \cup {map(with_ctx("inc_x"), "f"), or_else(with_ctx("bump_fail"), [c |-> "ok"]),
          boxed(err(V(1))), join(with_ctx("inc_y"), ok(V(1))),
          and_then(with_ctx("inc_x"), [c |-> "err"])}

\* transactions built without with_ctx or a bare closure
PureFnsTx == {[c |-> "ok"], [c |-> "err"], Const(err(V(1))), Const(lazy([r |-> Ok(V(1))]))}
PureUnary(T) ==
    {then(t, f) : t \in T, f \in {[c |-> "result"], Const(err(V(1)))}}
    \cup {map(t, f) : t \in T, f \in PureFns}
    \cup {and_then(t, f) : t \in T, f \in PureFnsTx}
    \cup {map_err(t, f) : t \in T, f \in PureFns}
    \cup {or_else(t, f) : t \in T, f \in PureFnsTx}
    \cup {abort(t, f) : t \in T, f \in PureFns}
    \cup {try_abort(t, f) : t \in T, f \in TryFns}
    \cup {recover(t, f) : t \in T, f \in PureFns}
    \cup {try_recover(t, f) : t \in T, f \in TryFns}
    \cup {boxed(t) : t \in T}
    \cup {ref(t) : t \in T}
PureTrees ==
    PureLeaves \cup PureUnary(PureLeaves)
    \cup Joins({ok(V(1)), err(V(MaxVal)), lazy([r |-> Err(V(1))])})
    \cup PureUnary({join(ok(V(1)), ok(V(MaxVal))), map(err(V(1)), "f")})

\* the handles tx is put behind
Handles(tx) == {boxed(tx), ref(tx), boxed(ref(boxed(tx))), Erased(tx, TRUE)}

\* one run of one transaction
Single ==
    \E t \in Trees, c \in Ctxs :
        prog = <<t>> /\ ctx0 = <<c>>

\* a transaction, then the same transaction behind handles, from the same context
ErasedPair ==
    \E t \in Erasable, c \in Ctxs : \E h \in Handles(t) :
        prog = <<t, h>> /\ ctx0 = <<c, c>>

\* the two ways of nesting an and_then chain, from the same context
AssocPair ==
    \E t \in Heads, f \in TxFns, g \in TxFns, c \in Ctxs :
        /\ prog = <<and_then(and_then(t, f), g), and_then(t, AndThenWith(f, g))>>
        /\ ctx0 = <<c, c>>

\* a transaction built without with_ctx, run from two different contexts
PurePair ==
    \E t \in PureTrees, c \in Ctxs, d \in Ctxs :
        c # d /\ prog = <<t, t>> /\ ctx0 = <<c, d>>

Init ==
    /\ Single \/ ErasedPair \/ AssocPair \/ PurePair
    /\ run = 1
    /\ pc = "idle"
    /\ cur = Nil
    /\ res = Nil
    /\ stack = <<>>
    /\ ctx = ctx0[1]
    /\ log = <<>>
    /\ outs = <<>>

Next ==
    \/ Start
    \/ Finish
    \/ TxResult_run
    \/ TxOk_run
    \/ TxErr_run
    \/ Lazy_run
    \/ WithCtx_run
    \/ Fn_run
    \/ Box_run
    \/ Ref_run
    \/ Map_run
    \/ Map_ret
    \/ Then_run
    \/ Then_ret
    \/ AndThen_run
    \/ AndThen_ret
    \/ MapErr_run
    \/ MapErr_ret
    \/ OrElse_run
    \/ OrElse_ret
    \/ Abort_run
    \/ Abort_ret
    \/ TryAbort_run
    \/ TryAbort_ret
    \/ Recover_run
    \/ Recover_ret
    \/ TryRecover_run
    \/ TryRecover_ret
    \/ Join_run
    \/ Join_ret
    \/ Join3_run
    \/ Join3_ret
    \/ Join4_run
    \/ Join4_ret

Spec == Init /\ [][Next]_vars

-----------------------------------------------------------------------------
(* Vocabulary of the properties. *)

\* the children of a join, in declared order
Kids(tx) ==
    CASE tx.k = "Join" -> <<tx.tx1, tx.tx2>>
      [] tx.k = "Join3" -> <<tx.tx1, tx.tx2, tx.tx3>>
      [] tx.k = "Join4" -> <<tx.tx1, tx.tx2, tx.tx3, tx.tx4>>

\* the child of a combinator of one of the kinds has just returned res to it
Back(kinds) == pc = "ret" /\ stack # <<>> /\ Head(stack).self.k \in kinds

\* the driver has all outcomes of a scenario of n runs
Done(n) == pc = "done" /\ Len(prog) = n
DoneNext(n) == pc' = "done" /\ Len(prog) = n

\* the leaves that ran, in order
LeafRuns(l) == SelectSeq(l, LAMBDA e : e.ev = "run")
\* the invocations of closure f on a, in order
CallsOf(l, f, a) == SelectSeq(l, LAMBDA e : e = CallEv(f, a))
\* what was logged after the first n events
After(l, n) == SubSeq(l, n + 1, Len(l))

\* a tree of joins over leaves, and its leaves from left to right
RECURSIVE IsJoinTree(_)
IsJoinTree(tx) ==
    \/ tx.k \in LeafKinds
    \/ tx.k \in JoinKinds /\ \A i \in DOMAIN Kids(tx) : IsJoinTree(Kids(tx)[i])
RECURSIVE Fringe(_)
RECURSIVE FringeAll(_)
FringeAll(txs) == IF txs = <<>> THEN <<>> ELSE Fringe(Head(txs)) \o FringeAll(Tail(txs))
Fringe(tx) == IF tx.k \in LeafKinds THEN <<tx>> ELSE FringeAll(Kids(tx))

\* the result of a join whose children returned rs: the first failure in declared
\* order, or all the values
FirstFailure(rs) == CHOOSE i \in DOMAIN rs : ~rs[i].ok /\ \A j \in 1..(i - 1) : rs[j].ok
Joined(rs) ==
    IF \A i \in DOMAIN rs : rs[i].ok
    THEN Ok(Tup([i \in DOMAIN rs |-> rs[i].v]))
    ELSE Err(rs[FirstFailure(rs)].v)

-----------------------------------------------------------------------------
(* C1: one run of a join, join3 or join4 runs every child exactly once, in *)
(* declared order, on the same context, whatever the earlier children      *)
(* returned; each child sees the context as the previous child left it.    *)
(* Step by step: the join first runs its first child; when child n has     *)
(* returned, with a success or a failure alike, it runs child n + 1 on the *)
(* context as it is, and after the last child it returns without running   *)
(* anything more.  End to end, for a tree of joins over leaves: the leaves *)
(* that ran are the leaves of the tree from left to right, each once, each *)
(* starting from the context the one before it left.                       *)

C1_First ==
    pc = "eval" /\ cur.k \in JoinKinds =>
        pc' = "eval" /\ cur' = Kids(cur)[1] /\ ctx' = ctx /\ log' = log

C1_Following ==
    Back(JoinKinds) =>
        LET self == Head(stack).self
            n == Len(Head(stack).rs) + 1
        IN  /\ ctx' = ctx /\ log' = log
            /\ IF n < Len(Kids(self))
               THEN /\ pc' = "eval" /\ cur' = Kids(self)[n + 1]
                    /\ Len(stack') = Len(stack)
                    /\ Head(stack').self = self
                    /\ Len(Head(stack').rs) = n
               ELSE pc' = "ret" /\ stack' = Tail(stack)

C1_EndToEnd ==
    DoneNext(1) /\ IsJoinTree(prog[1]) =>
        LET l == outs'[1].log
            leaves == Fringe(prog[1])
        IN  /\ Len(l) = Len(leaves)
            /\ \A i \in DOMAIN l :
                /\ l[i].ev = "run" /\ l[i].tx = leaves[i]
                /\ l[i].pre = IF i = 1 THEN ctx0[1] ELSE l[i - 1].post
                /\ l[i].tx.k \in {"WithCtx", "Fn"} =>
                        l[i].res = CallCtx(l[i].tx.f, l[i].pre).res
            /\ outs'[1].ctx = l[Len(l)].post

\* C1: a join runs every child once, in declared order, on the same context,
\* whatever the earlier children returned
C1_JoinRunsAllInOrder == [][C1_First /\ C1_Following /\ C1_EndToEnd]_vars

\* a join4 whose first child failed after writing x: the other three still ran,
\* and the second, which reads x, saw the write
C1_Witness ==
    /\ Done(1) /\ prog[1].k = "Join4"
    /\ Len(outs[1].log) = 4
    /\ outs[1].log[1].tx = with_ctx("bump_fail") /\ ~outs[1].log[1].res.ok
    /\ outs[1].log[2].tx = with_ctx("add")
    /\ outs[1].log[2].res = Ok(V(ctx0[1].x + 1 + ctx0[1].y))

-----------------------------------------------------------------------------
(* C2: once all children of a join, join3 or join4 have run, the result is *)
(* Ok of the tuple of their values in declared order if none failed, and   *)
(* otherwise Err of the error of the first child in declared order that    *)
(* failed.  Step by step, for the results the children returned; end to    *)
(* end, for a join of leaves, for the results the leaves returned.         *)

C2_AtReturn ==
    Back(JoinKinds) /\ Len(Head(stack).rs) + 1 = Len(Kids(Head(stack).self)) =>
        res' = Joined(Append(Head(stack).rs, res))

C2_EndToEnd ==
    /\ DoneNext(1) /\ prog[1].k \in JoinKinds
    /\ \A i \in DOMAIN Kids(prog[1]) : Kids(prog[1])[i].k \in LeafKinds
    =>  LET l == outs'[1].log
        IN  /\ Len(l) = Len(Kids(prog[1]))
            /\ outs'[1].res = Joined([i \in DOMAIN l |-> l[i].res])

\* C2: a join yields the tuple of all values, or the error of the first child in
\* declared order that failed
C2_JoinFirstFailureWins == [][C2_AtReturn /\ C2_EndToEnd]_vars

\* a join3 whose first child succeeded and whose second and third failed with
\* different errors: the error is the second child's
C2_Witness ==
    /\ Done(1) /\ prog[1].k = "Join3"
    /\ Len(outs[1].log) = 3
    /\ outs[1].log[1].res.ok
    /\ ~outs[1].log[2].res.ok /\ ~outs[1].log[3].res.ok
    /\ outs[1].log[2].res.v # outs[1].log[3].res.v
    /\ outs[1].res = Err(outs[1].log[2].res.v)

-----------------------------------------------------------------------------
(* C3: and_then(tx, f).  When tx fails with e, f is never invoked, no      *)
(* continuation runs, the result is Err(e) unchanged and the context is as *)
(* tx left it.  When tx succeeds with v, f(v) is invoked exactly once and  *)
(* the transaction it returns runs on the context as tx left it, in the    *)
(* place of the and_then, so that its result is the overall result.        *)
(* End to end, for a leaf tx and a continuation that is a leaf.            *)

C3_Failure ==
    Back({"AndThen"}) /\ ~res.ok =>
        /\ pc' = "ret" /\ res' = res
        /\ ctx' = ctx /\ log' = log
        /\ stack' = Tail(stack)

C3_Success ==
    Back({"AndThen"}) /\ res.ok =>
        LET f == Head(stack).self.f
        IN  /\ pc' = "eval" /\ cur' = CallTx(f, res.v)
            /\ ctx' = ctx
            /\ stack' = Tail(stack)
            /\ SubSeq(log', 1, Len(log)) = log
            /\ Len(CallsOf(After(log', Len(log)), f, res.v)) = 1
            /\ LeafRuns(log') = LeafRuns(log)

C3_EndToEnd ==
    DoneNext(1) /\ prog[1].k = "AndThen" /\ prog[1].tx.k \in LeafKinds =>
        LET o == outs'[1]
            l == o.log
            f == prog[1].f
        IN  /\ l[1].ev = "run" /\ l[1].tx = prog[1].tx /\ l[1].pre = ctx0[1]
            /\ IF l[1].res.ok
               THEN CallTx(f, l[1].res.v).k \in LeafKinds =>
                    /\ Len(l) = 3
                    /\ l[2] = CallEv(f, l[1].res.v)
                    /\ l[3].ev = "run" /\ l[3].tx = CallTx(f, l[1].res.v)
                    /\ l[3].pre = l[1].post
                    /\ o.res = l[3].res /\ o.ctx = l[3].post
               ELSE Len(l) = 1 /\ o.res = l[1].res /\ o.ctx = l[1].post

\* C3: and_then runs the continuation once after a success, on the context as tx
\* left it, and returns a failure unchanged without invoking f
C3_AndThenShortCircuits == [][C3_Failure /\ C3_Success /\ C3_EndToEnd]_vars

\* an and_then of an and_then: the inner one's tx succeeded and its continuation
\* failed after writing x, so the outer continuation was never invoked
C3_Witness ==
    /\ Done(1)
    /\ prog[1] = and_then(and_then(with_ctx("inc_x"), Const(with_ctx("bump_fail"))),
                          Const(with_ctx("inc_y")))
    /\ outs[1].res = Err(V(ctx0[1].x + 1))
    /\ outs[1].ctx = [x |-> ctx0[1].x + 2, y |-> ctx0[1].y]
    /\ Len(outs[1].log) = 3

-----------------------------------------------------------------------------
(* C6: or_else(tx, f).  When tx succeeds with v, f is never invoked, no    *)
(* fallback runs and the result is Ok(v) unchanged.  When tx fails with e, *)
(* f(e) is invoked exactly once and the transaction it returns runs on the *)
(* context as tx left it, its result being the overall result.             *)

C6_Success ==
    Back({"OrElse"}) /\ res.ok =>
        /\ pc' = "ret" /\ res' = res
        /\ ctx' = ctx /\ log' = log
        /\ stack' = Tail(stack)

C6_Failure ==
    Back({"OrElse"}) /\ ~res.ok =>
        LET f == Head(stack).self.f
        IN  /\ pc' = "eval" /\ cur' = CallTx(f, res.v)
            /\ ctx' = ctx
            /\ stack' = Tail(stack)
            /\ SubSeq(log', 1, Len(log)) = log
            /\ Len(CallsOf(After(log', Len(log)), f, res.v)) = 1
            /\ LeafRuns(log') = LeafRuns(log)

C6_EndToEnd ==
    DoneNext(1) /\ prog[1].k = "OrElse" /\ prog[1].tx.k \in LeafKinds =>
        LET o == outs'[1]
            l == o.log
            f == prog[1].f
        IN  /\ l[1].ev = "run" /\ l[1].tx = prog[1].tx /\ l[1].pre = ctx0[1]
            /\ IF l[1].res.ok
               THEN Len(l) = 1 /\ o.res = l[1].res /\ o.ctx = l[1].post
               ELSE CallTx(f, l[1].res.v).k \in LeafKinds =>
                    /\ Len(l) = 3
                    /\ l[2] = CallEv(f, l[1].res.v)
                    /\ l[3].ev = "run" /\ l[3].tx = CallTx(f, l[1].res.v)
                    /\ l[3].pre = l[1].post
                    /\ o.res = l[3].res /\ o.ctx = l[3].post

\* C6: or_else runs the fallback once after a failure, on the context as tx left
\* it, and returns a success unchanged without invoking f
C6_OrElseFallsBack == [][C6_Success /\ C6_Failure /\ C6_EndToEnd]_vars

\* an or_else of an or_else: the inner one's tx failed after writing x and its
\* fallback succeeded, so the outer fallback was never invoked
C6_Witness ==
    /\ Done(1)
    /\ prog[1] = or_else(or_else(with_ctx("bump_fail"), Const(with_ctx("inc_y"))),
                         Const(with_ctx("bump_fail")))
    /\ outs[1].res = Ok(V(ctx0[1].y))
    /\ outs[1].ctx = [x |-> ctx0[1].x + 1, y |-> ctx0[1].y + 1]
    /\ Len(outs[1].log) = 3

-----------------------------------------------------------------------------
(* C7: abort(tx, f) never yields a success.  When tx succeeds with v the   *)
(* result is Err(f(v)); when tx fails with e the result is Err(e)          *)
(* unchanged and f is not invoked.  In particular abort(ok(v), f) yields   *)
(* Err(f(v)) and abort(err(e), f) yields Err(e).                           *)

C7_Step ==
    Back({"Abort"}) =>
        LET f == Head(stack).self.f
        IN  /\ pc' = "ret" /\ ~res'.ok
            /\ ctx' = ctx /\ stack' = Tail(stack)
            /\ IF res.ok
               THEN res' = Err(CallPure(f, res.v)) /\ log' = Append(log, CallEv(f, res.v))
               ELSE res' = res /\ log' = log

C7_EndToEnd ==
    DoneNext(1) /\ prog[1].k = "Abort" =>
        LET o == outs'[1]
            tx == prog[1].tx
            f == prog[1].f
        IN  /\ ~o.res.ok
            /\ tx.k = "TxOk" => o.res = Err(CallPure(f, tx.ok)) /\ o.ctx = ctx0[1]
            /\ tx.k = "TxErr" => o.res = Err(tx.err) /\ Len(o.log) = 1 /\ o.ctx = ctx0[1]
            /\ tx.k \in LeafKinds =>
                /\ o.log[1].tx = tx /\ o.ctx = o.log[1].post
                /\ IF o.log[1].res.ok
                   THEN /\ o.res = Err(CallPure(f, o.log[1].res.v))
                        /\ After(o.log, 1) = <<CallEv(f, o.log[1].res.v)>>
                   ELSE o.res = o.log[1].res /\ Len(o.log) = 1

\* C7: abort yields Err(f(v)) after a success and Err(e) unchanged, f not invoked,
\* after a failure; never a success
C7_AbortAlwaysFails == [][C7_Step /\ C7_EndToEnd]_vars

\* abort of a success: the failure holds f of the value
C7_Witness ==
    /\ Done(1)
    /\ prog[1] = abort(ok(V(1)), "f")
    /\ outs[1].res = Err(App("f", V(1)))

-----------------------------------------------------------------------------
(* C8: recover(tx, f) never yields a failure.  When tx fails with e the    *)
(* result is Ok(f(e)); when tx succeeds with v the result is Ok(v)         *)
(* unchanged and f is not invoked.  In particular recover(err(e), f)       *)
(* yields Ok(f(e)) and recover(ok(v), f) yields Ok(v).                     *)

C8_Step ==
    Back({"Recover"}) =>
        LET f == Head(stack).self.f
        IN  /\ pc' = "ret" /\ res'.ok
            /\ ctx' = ctx /\ stack' = Tail(stack)
            /\ IF res.ok
               THEN res' = res /\ log' = log
               ELSE res' = Ok(CallPure(f, res.v)) /\ log' = Append(log, CallEv(f, res.v))

C8_EndToEnd ==
    DoneNext(1) /\ prog[1].k = "Recover" =>
        LET o == outs'[1]
            tx == prog[1].tx
            f == prog[1].f
        IN  /\ o.res.ok
            /\ tx.k = "TxErr" => o.res = Ok(CallPure(f, tx.err)) /\ o.ctx = ctx0[1]
            /\ tx.k = "TxOk" => o.res = Ok(tx.ok) /\ Len(o.log) = 1 /\ o.ctx = ctx0[1]
            /\ tx.k \in LeafKinds =>
                /\ o.log[1].tx = tx /\ o.ctx = o.log[1].post
                /\ IF o.log[1].res.ok
                   THEN o.res = o.log[1].res /\ Len(o.log) = 1
                   ELSE /\ o.res = Ok(CallPure(f, o.log[1].res.v))
                        /\ After(o.log, 1) = <<CallEv(f, o.log[1].res.v)>>

\* C8: recover yields Ok(f(e)) after a failure and Ok(v) unchanged, f not
\* invoked, after a success; never a failure
C8_RecoverAlwaysSucceeds == [][C8_Step /\ C8_EndToEnd]_vars

\* recover of a failure: the success holds f of the error
C8_Witness ==
    /\ Done(1)
    /\ prog[1] = recover(err(V(1)), "f")
    /\ outs[1].res = Ok(App("f", V(1)))

-----------------------------------------------------------------------------
(* C4: from x = 0 and y = 0, one run of the example's transaction,         *)
(* and_then(and_then(inc_x, _ -> inc_y), _ -> add), yields Ok(2) and       *)
(* leaves x = 1 and y = 1: inc_x, inc_y and add ran once each, in this     *)
(* order, the increments returned the old values and add saw both writes.  *)

C4_ExampleYieldsTwo ==
    Done(1) /\ prog[1] = main /\ ctx0[1] = [x |-> 0, y |-> 0] =>
        LET o == outs[1]
            l == LeafRuns(o.log)
        IN  /\ o.res = Ok(V(2))
            /\ o.ctx = [x |-> 1, y |-> 1]
            /\ [i \in DOMAIN l |-> l[i].tx] =
                    <<with_ctx("inc_x"), with_ctx("inc_y"), with_ctx("add")>>
            /\ [i \in DOMAIN l |-> l[i].res] = <<Ok(V(0)), Ok(V(0)), Ok(V(2))>>
            /\ l[3].pre = [x |-> 1, y |-> 1]

\* the example has run to its end from x = 0 and y = 0
C4_Witness ==
    /\ Done(1) /\ prog[1] = main /\ ctx0[1] = [x |-> 0, y |-> 0]
    /\ outs[1].res.ok
    /\ Len(outs[1].log) = 5

-----------------------------------------------------------------------------
(* C5: and_then is associative.  From the same context,                    *)
(* and_then(and_then(tx, f), g) and and_then(tx, v -> and_then(f(v), g))   *)
(* yield the same result and the same final context, and run the same      *)
(* leaves in the same order.                                               *)

AssocShape ==
    /\ prog[1].k = "AndThen" /\ prog[1].tx.k = "AndThen"
    /\ prog[2] = and_then(prog[1].tx.tx, AndThenWith(prog[1].tx.f, prog[1].f))
    /\ ctx0[1] = ctx0[2]

C5_AndThenAssociative ==
    Done(2) /\ AssocShape =>
        /\ outs[1].res = outs[2].res
        /\ outs[1].ctx = outs[2].ctx
        /\ LeafRuns(outs[1].log) = LeafRuns(outs[2].log)

\* both nestings have run all three stages, and the stages wrote the context
C5_Witness ==
    /\ Done(2) /\ AssocShape
    /\ Len(LeafRuns(outs[1].log)) = 3 /\ Len(LeafRuns(outs[2].log)) = 3
    /\ outs[2].ctx.x # ctx0[2].x /\ outs[2].ctx.y # ctx0[2].y

-----------------------------------------------------------------------------
(* C9: a handle is transparent.  Running boxed(tx), a Box of tx or a       *)
(* shared reference to tx, at any depth of the tree, calls run once on the *)
(* wrapped transaction, in the handle's place and on the same context; so  *)
(* a transaction behind handles yields the same result and final context   *)
(* as the transaction itself, and runs the same leaves and closures.       *)

C9_Forward ==
    pc = "eval" /\ cur.k \in {"Box", "Ref"} =>
        /\ pc' = "eval" /\ cur' = cur.tx
        /\ ctx' = ctx /\ stack' = stack /\ log' = log

C9_EndToEnd ==
    DoneNext(2) /\ prog[2] \in Handles(prog[1]) /\ ctx0[1] = ctx0[2] =>
        /\ outs'[1].res = outs'[2].res
        /\ outs'[1].ctx = outs'[2].ctx
        /\ outs'[1].log = outs'[2].log

\* C9: a transaction behind handles runs as the transaction itself: same result,
\* same final context, same leaves and closures, the wrapped run called once
C9_ErasureTransparent == [][C9_Forward /\ C9_EndToEnd]_vars

\* a join of three children that write and read the context, and the same join
\* with every node behind a handle, have run to the same outcome
C9_Witness ==
    /\ Done(2)
    /\ prog[1].k = "Join3" /\ prog[2] = Erased(prog[1], TRUE)
    /\ outs[1] = outs[2]
    /\ outs[1].ctx # ctx0[1]
    /\ Len(outs[2].log) = 3

-----------------------------------------------------------------------------
(* C10: which nodes touch the context. *)

\* a transaction built from result, ok, err and lazy leaves alone, the
\* transactions its closures return included
RECURSIVE IsPure(_)
RECURSIVE IsPureFn(_)
IsPureFn(f) ==
    CASE f.c = "const" -> IsPure(f.tx)
      [] f.c = "and_then" -> IsPureFn(f.f) /\ IsPureFn(f.g)
      [] OTHER -> TRUE
IsPure(tx) ==
    CASE tx.k \in LeafKinds -> tx.k \in {"TxResult", "TxOk", "TxErr", "Lazy"}
      [] tx.k \in JoinKinds -> \A i \in DOMAIN Kids(tx) : IsPure(Kids(tx)[i])
      [] tx.k \in {"Then", "AndThen", "OrElse"} -> IsPure(tx.tx) /\ IsPureFn(tx.f)
      [] OTHER -> IsPure(tx.tx)

InRun == pc \in {"eval", "ret"}

\* a transaction without with_ctx or a bare closure leaves the context as it was
\* before the run, and yields the same result from any context
C10_PureFrame ==
    /\ InRun /\ IsPure(prog[run]) => ctx = ctx0[run] /\ ctx' = ctx
    /\ DoneNext(2) /\ prog[1] = prog[2] /\ IsPure(prog[1]) =>
        /\ outs'[1].res = outs'[2].res
        /\ outs'[1].ctx = ctx0[1] /\ outs'[2].ctx = ctx0[2]

(* C10 as claimed: with_ctx is the only leaf kind that can observe or      *)
(* mutate the context, so that during a run the context changes only       *)
(* inside the run of a with_ctx leaf; a transaction built from result, ok, *)
(* err and lazy leaves leaves the context as it was and yields a result    *)
(* that does not depend on it.                                             *)
C10_OnlyWithCtx ==
    [][/\ InRun /\ ctx' # ctx => pc = "eval" /\ cur.k = "WithCtx"
       /\ C10_PureFrame]_vars

(* C10 amended: the leaves that can observe or mutate the context are the  *)
(* with_ctx leaves and the bare closures Fn(&mut Ctx) -> Result used as    *)
(* transactions; during a run the context changes only inside the run of   *)
(* one of these, combinators and handles never change it; a transaction    *)
(* built from result, ok, err and lazy leaves leaves the context as it was *)
(* and yields a result that does not depend on it.                         *)
C10_OnlyContextClosures ==
    [][/\ InRun /\ ctx' # ctx => pc = "eval" /\ cur.k \in {"WithCtx", "Fn"}
       /\ pc = "eval" /\ cur.k \in {"WithCtx", "Fn"} =>
            ctx' = CallCtx(cur.f, ctx).ctx /\ res' = CallCtx(cur.f, ctx).res
       /\ C10_PureFrame]_vars

\* a combinator over a join of pure leaves has run from two different contexts
\* to the same result, each context left as it was
C10_Witness ==
    /\ Done(2) /\ prog[1] = prog[2] /\ ctx0[1] # ctx0[2]
    /\ IsPure(prog[1])
    /\ prog[1].k = "AndThen" /\ prog[1].tx.k = "Join"
    /\ outs[1].res = outs[2].res
    /\ outs[1].ctx = ctx0[1] /\ outs[2].ctx = ctx0[2]

====
